---- MODULE Spec2Model ----
(***************************************************************************)
(* Model of the RPC node of libp2p-rpc (src/src/RPC.ts).                   *)
(*                                                                         *)
(* Two RPC nodes built by the same createRPC(options) factory talk over    *)
(* the message-handler transport.  Every node runs the whole class: the    *)
(* method registry (methods), the call tracker (msgPromises), the id       *)
(* counter of genMsgId, request / notify / addMethod / start / stop and    *)
(* the inbound dispatch handleMessage.  A third peer (Rogue) stands for    *)
(* any remote peer that writes responses of its own making on the wire.    *)
(*                                                                         *)
(* Time is abstract: a timer armed by setTimeout may fire at any later     *)
(* step.  Suspension points of the async functions (the awaited send in    *)
(* request, the awaited handler in handleMessage) are separate steps.      *)
(***************************************************************************)
EXTENDS Integers, Sequences, FiniteSets, TLC

\* ---------------------------------------------------------------- bounds
MaxOps == 2     \* request(), notify() calls and rogue responses per run

\* ------------------------------------------------------------ value sets
Nodes       == {1, 2}
Registrars  == {2}               \* nodes whose application registers methods
Rogue       == 0
Names       == {"echo"}
Handlers    == {"h1"}
RegNames    == {"echo", "sum"}   \* names of the runs that re-register methods
RegHandlers == {"h1", "h2"}      \* their handlers
NoHandler   == "none"
Absent      == "absent"          \* an absent params / result field
NoId        == -1                \* an absent request id (notification)
ParamVals   == {"p1"}
TimeoutOpts == {-1, 0}           \* options.timeout
SendErrors  == {"dial failed"}   \* error.message of a failed handler.send
Ids         == 0 .. MaxOps     \* message ids that can occur on the wire
NoCall      == 0                 \* msgPromises.get(id) == null

VARIABLES
    timeout,       \* this.options.timeout (same options object for both nodes)
    started,       \* node -> the transport adapter is started
    methods,       \* node -> (name -> handler | NoHandler)    this.methods
    nextId,        \* node -> the closure variable id of genMsgId
    msgPromises,   \* node -> (message id -> index of the call it settles)
    calls,         \* node -> sequence of request() invocations, issue order
    serving,       \* node -> handler invocations that have not returned yet
    net,           \* packets written to the transport, not yet delivered
    used,          \* notify() calls and rogue responses made so far
    last           \* what the last step did that the state does not show:
                   \* the handler.send calls it made, the handlers it
                   \* invoked, whether it ended in an uncaught rejection

vars == <<timeout, started, methods, nextId, msgPromises, calls, serving,
          net, used, last>>

\* ------------------------------------------------------------- messages
\* Messages.createRequest(name, id, params)
createRequest(name, id, params) ==
    [name |-> name, id |-> id, params |-> params, type |-> "request",
     result |-> Absent, error |-> {}]

\* Messages.createNotification(name, params): a request without id
createNotification(name, params) ==
    [name |-> name, id |-> NoId, params |-> params, type |-> "request",
     result |-> Absent, error |-> {}]

\* Messages.createResponse(id, result)
createResponse(id, result) ==
    [name |-> "", id |-> id, params |-> Absent, type |-> "response",
     result |-> result, error |-> {}]

\* Messages.createError(id, message, code)
createError(id, message, code) ==
    [name |-> "", id |-> id, params |-> Absent, type |-> "response",
     result |-> Absent, error |-> {[message |-> message, code |-> code]}]

MethodNotFoundCode == -32601

\* Messages.createMethodNotFoundError(id)
createMethodNotFoundError(id) ==
    createError(id, "method not found", MethodNotFoundCode)

\* bytes on the wire that are no encoding of a message
MalformedBody ==
    [name |-> "", id |-> NoId, params |-> Absent, type |-> "malformed",
     result |-> Absent, error |-> {}]

\* RPCMessage.decode(bytes): the message, tagged request or response; {} when
\* decode throws
decode(bytes) ==
    IF bytes.type \in {"request", "response"} THEN {bytes} ELSE {}

Packet(to, from, body) == [to |-> to, from |-> from, body |-> body]

\* new RPCException(message, code)
RPCException(message, code) == [message |-> message, code |-> code]

\* ------------------------------------------------------- promise of a call
PendingOutcome == [result |-> Absent, error |-> {}, kind |-> "Pending"]
Resolved(result) == [result |-> result, error |-> {}, kind |-> "Resolved"]
Rejected(kind, err) == [result |-> Absent, error |-> {err}, kind |-> kind]

\* resolve / reject of a promise: only the first settlement takes effect
SettleAlways(cur, new) == new
Settle(cur, new) == IF cur.kind = "Pending" THEN new ELSE cur

\* ------------------------------------------------------------ observation
\* got: the packet handleMessage was called with; inv: the handler invocation
\* that returned or threw, with what it did (out); reg: the addMethod call
\* made, with the handler the name had before; stopped: the node stop() was
\* called on
NoEv == [got |-> {}, inv |-> {}, out |-> {}, sends |-> <<>>, invoked |-> {},
         raised |-> FALSE, reg |-> {}, stopped |-> {}]
Sent(ev, pkt, ok) == [ev EXCEPT !.sends = <<[pkt |-> pkt, ok |-> ok]>>]
Got(pkt) == [NoEv EXCEPT !.got = {pkt}]
Returned(inv, out) == [NoEv EXCEPT !.inv = {inv}, !.out = {out}]

\* ------------------------------------------------------------------ Init
Init ==
    /\ timeout \in TimeoutOpts
    /\ started = [n \in Nodes |-> FALSE]
    /\ methods = [n \in Nodes |-> [m \in RegNames |-> NoHandler]]
    /\ nextId = [n \in Nodes |-> 0]
    /\ msgPromises = [n \in Nodes |-> [i \in Ids |-> NoCall]]
    /\ calls = [n \in Nodes |-> <<>>]
    /\ serving = [n \in Nodes |-> {}]
    /\ net = {}
    /\ used = 0
    /\ last = NoEv

\* ----------------------------------------------------------- start / stop
Start(n) ==
    /\ ~started[n]
    /\ started' = [started EXCEPT ![n] = TRUE]
    /\ last' = NoEv
    /\ UNCHANGED <<timeout, methods, nextId, msgPromises, calls, serving, net,
                   used>>

\* a stop() that would drop the pending calls of the node
StopClearing(n) ==
    /\ started[n]
    /\ started' = [started EXCEPT ![n] = FALSE]
    /\ msgPromises' = [msgPromises EXCEPT ![n] = [i \in Ids |-> NoCall]]
    /\ last' = [NoEv EXCEPT !.stopped = {n}]
    /\ UNCHANGED <<timeout, methods, nextId, calls, serving, net, used>>

\* stop(): await this.handler.stop()
Stop(n) ==
    /\ started[n]
    /\ started' = [started EXCEPT ![n] = FALSE]
    /\ last' = [NoEv EXCEPT !.stopped = {n}]
    /\ UNCHANGED <<timeout, methods, nextId, msgPromises, calls, serving, net,
                   used>>

\* -------------------------------------------------------------- addMethod
\* this.methods.set(name, method)
RegistrySetIfAbsent(reg, name, h) ==
    IF reg[name] = NoHandler THEN [reg EXCEPT ![name] = h] ELSE reg
RegistrySet(reg, name, h) == [reg EXCEPT ![name] = h]

AddMethod(n, name, h) ==
    /\ methods' = [methods EXCEPT ![n] = RegistrySet(@, name, h)]
    /\ last' = [NoEv EXCEPT !.reg = {[name |-> name, at |-> n, handler |-> h,
                                      prior |-> methods[n][name]]}]
    /\ UNCHANGED <<timeout, started, nextId, msgPromises, calls, serving, net,
                   used>>

\* ---------------------------------------------------------------- request
\* genMsgId: () => id++   (the value returned is the old id)
NextMsgIdStuck(id) == id
NextMsgId(id) == id + 1

\* the RPCError thrown when handler.send rejects
SendFailureErrorZero(text) == [message |-> text, code |-> 0]
SendFailureError(text) == [message |-> text, code |-> -32000]

\* this.options.timeout < 0  =>  no setTimeout
TimerArmedPositive(t) == t > 0
TimerArmedAlways(t) == TRUE
TimerArmed(t) == ~(t < 0)

\* msgPromises.set(messageId, { resolve, reject })
TrackerSet(mp, id, c) == [mp EXCEPT ![id] = c]

\* msgPromises.delete(id)
TrackerDeleteAll(mp, id) == [i \in Ids |-> NoCall]
TrackerDelete(mp, id) == [mp EXCEPT ![id] = NoCall]

\* msgPromises.get(id), NoCall when there is no entry
TrackerGetOldest(mp, id) ==
    IF \E i \in Ids : mp[i] # NoCall
    THEN mp[CHOOSE i \in Ids : mp[i] # NoCall /\ \A j \in Ids : mp[j] # NoCall => i <= j]
    ELSE NoCall
TrackerGet(mp, id) == IF id \in DOMAIN mp THEN mp[id] ELSE NoCall

Tracked(n) == {i \in Ids : msgPromises[n][i] # NoCall}

\* operations made so far: request() calls, and notify() / rogue responses
TotalOps == Len(calls[1]) + Len(calls[2]) + used

\* request(peer, name, params), up to the awaited handler.send: the id is
\* taken, the request is handed to the transport, the call suspends.
\* snd is what the transport will answer: "ok" or the error's message.
Request(n, peer, name, params, snd) ==
    /\ TotalOps < MaxOps
    /\ snd = "ok" => started[n]
    /\ LET messageId == nextId[n]
           pkt == Packet(peer, n, createRequest(name, messageId, params))
       IN /\ nextId' = [nextId EXCEPT ![n] = NextMsgId(@)]
          /\ calls' = [calls EXCEPT ![n] = Append(@,
                 [id |-> messageId, peer |-> peer, pc |-> "sending",
                  send |-> snd, outcome |-> PendingOutcome,
                  timer |-> "none"])]
          /\ net' = IF snd = "ok" THEN net \cup {pkt} ELSE net
          /\ last' = Sent(NoEv, pkt, snd = "ok")
    /\ UNCHANGED <<timeout, started, methods, msgPromises, serving, used>>

\* request resumes after the awaited send: throw on failure, otherwise
\* register the resolver and start the timeout watchdog.
RequestResume(n, c) ==
    /\ c \in 1 .. Len(calls[n])
    /\ calls[n][c].pc = "sending"
    /\ LET call == calls[n][c] IN
       IF call.send # "ok"
       THEN /\ calls' = [calls EXCEPT ![n][c].pc = "done",
                   ![n][c].outcome = Settle(@,
                       Rejected("RejectedBySendFailure", SendFailureError(call.send)))]
            /\ UNCHANGED msgPromises
       ELSE /\ msgPromises' = [msgPromises EXCEPT ![n] = TrackerSet(@, call.id, c)]
            /\ calls' = [calls EXCEPT ![n][c].pc = "awaiting",
                   ![n][c].timer = IF TimerArmed(timeout) THEN "armed" ELSE "none"]
    /\ last' = NoEv
    /\ UNCHANGED <<timeout, started, methods, nextId, serving, net,
                   used>>

\* the setTimeout callback: () => reject(timeoutError)
TimerFire(n, c) ==
    /\ c \in 1 .. Len(calls[n])
    /\ calls[n][c].timer = "armed"
    /\ calls' = [calls EXCEPT ![n][c].timer = "fired",
           ![n][c].outcome = Settle(@,
               Rejected("RejectedByTimeout", RPCException("timeout", 0)))]
    /\ last' = NoEv
    /\ UNCHANGED <<timeout, started, methods, nextId, msgPromises, serving, net,
                   used>>

\* ----------------------------------------------------------------- notify
\* notify(peer, name, params): handler.send(...).catch(() => {})
Notify(n, peer, name, params, ok) ==
    /\ TotalOps < MaxOps
    /\ used' = used + 1
    /\ ok => started[n]
    /\ LET pkt == Packet(peer, n, createNotification(name, params))
       IN /\ net' = IF ok THEN net \cup {pkt} ELSE net
          /\ last' = Sent(NoEv, pkt, ok)
    /\ UNCHANGED <<timeout, started, methods, nextId, msgPromises, calls,
                   serving>>

\* ---------------------------------------------------------- handleMessage
\* what a method handler can do: return a value (or nothing), or throw an
\* RPCException, an Error, a plain value, or a value JSON.stringify rejects
HandlerOutcomes ==
    {[code |-> 0, kind |-> "return", value |-> v] :
         v \in {"undefined", "r1"}}
    \cup {[code |-> 7, kind |-> "RPCException", value |-> "denied"],
          [code |-> 5, kind |-> "Error", value |-> "oops"],
          [code |-> 0, kind |-> "value", value |-> "boom"],
          [code |-> 0, kind |-> "circular", value |-> ""]}

\* the outcomes the handlers of the two-node runs produce: one success, one
\* failure (ServeSpec below runs the handlers over all of HandlerOutcomes)
CoreOutcomes == {o \in HandlerOutcomes : o.value \in {"r1", "oops"}}

\* (await method(...)) ?? undefined
Coalesce(v) == IF v \in {"null", "undefined"} THEN Absent ELSE v

\* JSON.stringify of a thrown plain value (a string is quoted)
JSONstringify(v) == "\"" \o v \o "\""

\* the catch block of handleMessage: the value of the outer variable `error`
\* once the block is left ({} is null).  The innermost catch (error) binds
\* its own `error`, so the "unknown error" exception never reaches the outer
\* variable.
NormalizeError(err) ==
    CASE err.kind = "RPCException" -> {RPCException(err.value, err.code)}
      [] err.kind = "Error"        -> {RPCException(err.value, 0)}
      [] err.kind = "value"        -> {RPCException(JSONstringify(err.value), 0)}
      [] err.kind = "circular"     -> {}

\* if (request.id == null) return;
RepliesAlways(id) == TRUE
Replies(id) == id # NoId

\* the reply to a request whose method is not registered
NotFoundReplyAsError(id) == createError(id, "method not found", 0)
NotFoundReply(id) == createMethodNotFoundError(id)

\* the reply after the handler returned or threw
HandlerReplyNoResult(id, result, error) ==
    IF error # {}
    THEN LET e == CHOOSE e \in error : TRUE IN createError(id, e.message, e.code)
    ELSE createResponse(id, Absent)
HandlerReply(id, result, error) ==
    IF error # {}
    THEN LET e == CHOOSE e \in error : TRUE IN createError(id, e.message, e.code)
    ELSE createResponse(id, result)

\* a send whose rejection nobody catches: handleMessage's promise rejects
\* and the inbound callback of start() does not await it
ReplySend(n, ev, pkt, ok) ==
    /\ ok => started[n]
    /\ net' = IF ok THEN (net \ ev.got) \cup {pkt} ELSE net \ ev.got
    /\ last' = [Sent(ev, pkt, ok) EXCEPT !.raised = ~ok]

\* handleMessage, request branch, up to the awaited method call
HandleRequest(pkt, ok) ==
    /\ pkt \in net
    /\ pkt.body.type = "request"
    /\ started[pkt.to]
    /\ LET n == pkt.to
           request == pkt.body
           method == methods[n][request.name]
       IN IF method = NoHandler
          THEN /\ IF Replies(request.id)
                  THEN ReplySend(n, Got(pkt),
                           Packet(pkt.from, n, NotFoundReply(request.id)), ok)
                  ELSE /\ ok
                       /\ net' = net \ {pkt}
                       /\ last' = Got(pkt)
               /\ UNCHANGED serving
          ELSE /\ ok
               /\ serving' = [serving EXCEPT ![n] = @ \cup
                      {[name |-> request.name, id |-> request.id,
                        params |-> request.params, from |-> pkt.from,
                        at |-> n, handler |-> method]}]
               /\ net' = net \ {pkt}
               /\ last' = [Got(pkt) EXCEPT !.invoked = {method}]
    /\ UNCHANGED <<timeout, started, methods, nextId, msgPromises, calls, used>>

\* handleMessage resumes after the awaited method call returned or threw
HandlerComplete(n, inv, out, ok) ==
    /\ inv \in serving[n]
    /\ serving' = [serving EXCEPT ![n] = @ \ {inv}]
    /\ LET error == IF out.kind = "return" THEN {} ELSE NormalizeError(out)
           result == IF out.kind = "return" THEN Coalesce(out.value) ELSE Absent
       IN IF Replies(inv.id)
          THEN ReplySend(n, Returned(inv, out),
                   Packet(inv.from, n, HandlerReply(inv.id, result, error)), ok)
          ELSE /\ ok
               /\ UNCHANGED net
               /\ last' = Returned(inv, out)
    /\ UNCHANGED <<timeout, started, methods, nextId, msgPromises, calls, used>>

\* a response branch that would wait while a handler of the node is running
HandleResponseWhenIdle(pkt) ==
    /\ pkt \in net
    /\ pkt.body.type = "response"
    /\ started[pkt.to]
    /\ serving[pkt.to] = {}
    /\ LET n == pkt.to
           response == pkt.body
           resolver == TrackerGet(msgPromises[n], response.id)
       IN /\ IF resolver = NoCall
             THEN UNCHANGED <<msgPromises, calls>>
             ELSE /\ msgPromises' = [msgPromises EXCEPT
                         ![n] = TrackerDelete(@, response.id)]
                  /\ calls' = [calls EXCEPT ![n][resolver].outcome =
                         Settle(@, IF response.error = {}
                                   THEN Resolved(response.result)
                                   ELSE Rejected("RejectedByPeer",
                                            CHOOSE e \in response.error : TRUE))]
    /\ last' = Got(pkt)
    /\ net' = net \ {pkt}
    /\ UNCHANGED <<timeout, started, methods, nextId, serving, used>>

\* handleMessage, response branch
HandleResponse(pkt) ==
    /\ pkt \in net
    /\ pkt.body.type = "response"
    /\ started[pkt.to]
    /\ LET n == pkt.to
           response == pkt.body
           resolver == TrackerGet(msgPromises[n], response.id)
       IN /\ IF resolver = NoCall
             THEN UNCHANGED <<msgPromises, calls>>
             ELSE /\ msgPromises' = [msgPromises EXCEPT
                         ![n] = TrackerDelete(@, response.id)]
                  /\ calls' = [calls EXCEPT ![n][resolver].outcome =
                         Settle(@, IF response.error = {}
                                   THEN Resolved(response.result)
                                   ELSE Rejected("RejectedByPeer",
                                            CHOOSE e \in response.error : TRUE))]
    /\ last' = Got(pkt)
    /\ net' = net \ {pkt}
    /\ UNCHANGED <<timeout, started, methods, nextId, serving, used>>

\* the inbound callback called with bytes RPCMessage.decode rejects: decode
\* throws inside the callback, before handleMessage is called, and the
\* exception goes to the transport that called the callback
HandleUndecodableAnswering(pkt) ==
    /\ pkt \in net
    /\ decode(pkt.body) = {}
    /\ started[pkt.to]
    /\ LET reply == Packet(pkt.from, pkt.to, createError(NoId, "parse error", 0))
       IN /\ net' = (net \ {pkt}) \cup {reply}
          /\ last' = Sent(Got(pkt), reply, TRUE)
    /\ UNCHANGED <<timeout, started, methods, nextId, msgPromises, calls,
                   serving, used>>

HandleUndecodable(pkt) ==
    /\ pkt \in net
    /\ decode(pkt.body) = {}
    /\ started[pkt.to]
    /\ net' = net \ {pkt}
    /\ last' = [Got(pkt) EXCEPT !.raised = TRUE]
    /\ UNCHANGED <<timeout, started, methods, nextId, msgPromises, calls,
                   serving, used>>

\* ------------------------------------------------------------ environment
\* a remote peer writes a response of its own making to node n
RogueResponses == {createResponse(i, "r9") : i \in {0, MaxOps}}

Inject(n, body) ==
    /\ TotalOps < MaxOps
    /\ used' = used + 1
    /\ net' = net \cup {Packet(n, Rogue, body)}
    /\ last' = NoEv
    /\ UNCHANGED <<timeout, started, methods, nextId, msgPromises, calls,
                   serving>>

Next ==
    \/ \E n \in Nodes : Start(n)
    \/ \E n \in Nodes : Stop(n)
    \/ \E n \in Registrars, name \in Names, h \in Handlers : AddMethod(n, name, h)
    \/ \E n \in Nodes : \E peer \in Nodes \ {n}, name \in Names,
          params \in ParamVals, snd \in {"ok"} \cup SendErrors :
              Request(n, peer, name, params, snd)
    \/ \E n \in Nodes : \E peer \in Nodes \ {n}, name \in Names,
          params \in ParamVals, ok \in BOOLEAN : Notify(n, peer, name, params, ok)
    \/ \E pkt \in net, ok \in BOOLEAN : HandleRequest(pkt, ok)
    \/ \E n \in Nodes : \E inv \in serving[n], out \in CoreOutcomes,
          ok \in BOOLEAN : HandlerComplete(n, inv, out, ok)
    \/ \E pkt \in net : HandleResponse(pkt)
    \/ \E n \in Nodes, body \in RogueResponses : Inject(n, body)
    \/ \E n \in Nodes, c \in 1 .. MaxOps : RequestResume(n, c)
    \/ \E n \in Nodes, c \in 1 .. MaxOps : TimerFire(n, c)

Spec == Init /\ [][Next]_vars

\* The event loop runs every continuation that is ready and every timer that
\* is due: request resumes after its awaited send, an armed timer fires.
Fairness ==
    \A n \in Nodes, c \in 1 .. MaxOps :
        WF_vars(RequestResume(n, c)) /\ WF_vars(TimerFire(n, c))

\* The runs the liveness claims are checked on: calls between the two nodes,
\* answered by the peer (no method is registered) or by the rogue peer, or
\* not answered at all (a packet may stay undelivered for ever).
LiveNext ==
    \/ \E n \in Nodes : Start(n)
    \/ \E n \in Nodes : \E peer \in Nodes \ {n}, name \in Names,
          params \in ParamVals, snd \in {"ok"} \cup SendErrors :
              Request(n, peer, name, params, snd)
    \/ \E pkt \in net, ok \in BOOLEAN : HandleRequest(pkt, ok)
    \/ \E pkt \in net : HandleResponse(pkt)
    \/ \E n \in Nodes : Inject(n, createResponse(0, "r9"))
    \/ \E n \in Nodes, c \in 1 .. MaxOps : RequestResume(n, c)
    \/ \E n \in Nodes, c \in 1 .. MaxOps : TimerFire(n, c)

FairSpec == Init /\ [][LiveNext]_vars /\ Fairness

\* Serving in full: node 1 calls and notifies node 2, whose handlers return
\* or throw every kind of value.
Client == 1

ServeNext ==
    \/ \E n \in Nodes : Start(n)
    \/ \E n \in Registrars, name \in Names, h \in Handlers : AddMethod(n, name, h)
    \/ \E peer \in Nodes \ {Client}, name \in Names, params \in ParamVals,
          snd \in {"ok"} \cup SendErrors : Request(Client, peer, name, params, snd)
    \/ \E peer \in Nodes \ {Client}, name \in Names, params \in ParamVals,
          ok \in BOOLEAN : Notify(Client, peer, name, params, ok)
    \/ \E pkt \in net, ok \in BOOLEAN : HandleRequest(pkt, ok)
    \/ \E n \in Nodes : \E inv \in serving[n], out \in HandlerOutcomes,
          ok \in BOOLEAN : HandlerComplete(n, inv, out, ok)
    \/ \E pkt \in net : HandleResponse(pkt)
    \/ \E c \in 1 .. MaxOps : RequestResume(Client, c)
    \/ \E c \in 1 .. MaxOps : TimerFire(Client, c)

ServeSpec == Init /\ [][ServeNext]_vars

\* Registering again: the application of node 2 registers and re-registers
\* two names with two handlers while node 1 calls them.
RegNext ==
    \/ \E n \in Nodes : Start(n)
    \/ \E n \in Registrars, name \in RegNames, h \in RegHandlers :
          AddMethod(n, name, h)
    \/ \E peer \in Nodes \ {Client}, name \in RegNames, params \in ParamVals :
          Request(Client, peer, name, params, "ok")
    \/ \E pkt \in net : HandleRequest(pkt, TRUE)
    \/ \E n \in Nodes : \E inv \in serving[n], out \in CoreOutcomes :
          HandlerComplete(n, inv, out, TRUE)
    \/ \E pkt \in net : HandleResponse(pkt)
    \/ \E c \in 1 .. MaxOps : RequestResume(Client, c)

RegSpec == Init /\ [][RegNext]_vars

\* Undecodable bytes: a remote peer writes bytes that are no message to the
\* serving node, among the calls of node 1.
DecodeNext ==
    \/ \E n \in Nodes : Start(n)
    \/ \E n \in Registrars, name \in Names, h \in Handlers : AddMethod(n, name, h)
    \/ \E peer \in Nodes \ {Client}, name \in Names, params \in ParamVals :
          Request(Client, peer, name, params, "ok")
    \/ \E pkt \in net : HandleRequest(pkt, TRUE)
    \/ \E n \in Nodes : \E inv \in serving[n], out \in CoreOutcomes :
          HandlerComplete(n, inv, out, TRUE)
    \/ \E pkt \in net : HandleResponse(pkt)
    \/ \E c \in 1 .. MaxOps : RequestResume(Client, c)
    \/ \E n \in Registrars : Inject(n, MalformedBody)
    \/ \E pkt \in net : HandleUndecodable(pkt)

DecodeSpec == Init /\ [][DecodeNext]_vars

\* A node whose handler does not return: both nodes are started, node 2 has
\* registered its method and is running its handler for a notification of
\* node 1 (handleMessage is suspended at the awaited method call).
Suspended ==
    [name |-> "echo", id |-> NoId, params |-> "p1", from |-> 1, at |-> 2,
     handler |-> "h1"]

BusyInit ==
    /\ timeout \in TimeoutOpts
    /\ started = [n \in Nodes |-> TRUE]
    /\ methods = [n \in Nodes |-> [m \in RegNames |->
                      IF n = Suspended.at /\ m = Suspended.name
                      THEN Suspended.handler ELSE NoHandler]]
    /\ nextId = [n \in Nodes |-> 0]
    /\ msgPromises = [n \in Nodes |-> [i \in Ids |-> NoCall]]
    /\ calls = [n \in Nodes |-> <<>>]
    /\ serving = [n \in Nodes |-> IF n = Suspended.at THEN {Suspended} ELSE {}]
    /\ net = {}
    /\ used = 0
    /\ last = NoEv

BusyNext ==
    \/ \E n \in Nodes : \E peer \in Nodes \ {n}, name \in Names,
          params \in ParamVals : Request(n, peer, name, params, "ok")
    \/ \E pkt \in net : HandleRequest(pkt, TRUE)
    \/ \E n \in Nodes : \E inv \in serving[n], out \in CoreOutcomes :
          HandlerComplete(n, inv, out, TRUE)
    \/ \E pkt \in net : HandleResponse(pkt)
    \/ \E n \in Nodes, c \in 1 .. MaxOps : RequestResume(n, c)
    \/ \E n \in Nodes, c \in 1 .. MaxOps : TimerFire(n, c)

BusySpec == BusyInit /\ [][BusyNext]_vars

\* ======================================================================
\* Properties
\* ======================================================================
CallsOf(n) == 1 .. Len(calls[n])

\* call c of node n is registered in the tracker and not settled
IsPending(n, c) ==
    /\ calls[n][c].pc = "awaiting"
    /\ calls[n][c].outcome.kind = "Pending"
    /\ calls[n][c].id \in Ids
    /\ msgPromises[n][calls[n][c].id] = c

\* this step is handleMessage called with the response packet pkt
RespStep(pkt) ==
    pkt \in net /\ pkt.body.type = "response" /\ last'.got = {pkt}

\* what the claims say a response does to the call it belongs to
ResponseOutcome(body) ==
    IF body.error = {}
    THEN [result |-> body.result, error |-> {}, kind |-> "Resolved"]
    ELSE [result |-> Absent, error |-> body.error, kind |-> "RejectedByPeer"]

\* C1: a response whose id matches a pending call settles exactly that call,
\* fulfilled with the response's result if it carries no error and rejected
\* with the carried error otherwise, and leaves every other call (its tracker
\* entry and its outcome) as it was, whatever the order of the responses.
C1_ResponseSettlesItsCallOnly ==
    [][\A pkt \in net : RespStep(pkt) =>
          \A c \in CallsOf(pkt.to) :
              (IsPending(pkt.to, c) /\ calls[pkt.to][c].id = pkt.body.id) =>
                  /\ calls'[pkt.to][c].outcome = ResponseOutcome(pkt.body)
                  /\ \A m \in Nodes : \A d \in CallsOf(m) :
                         <<m, d>> # <<pkt.to, c>> => calls'[m][d] = calls[m][d]
                  /\ \A m \in Nodes, i \in Ids :
                         <<m, i>> # <<pkt.to, pkt.body.id>>
                             => msgPromises'[m][i] = msgPromises[m][i]
      ]_vars

\* the second call of a node has just been settled by its response while the
\* first is still pending in the tracker
C1_Witness ==
    \E n \in Nodes :
        /\ Len(calls[n]) = 2
        /\ IsPending(n, 1)
        /\ calls[n][2].outcome.kind \in {"Resolved", "RejectedByPeer"}
        /\ \E pkt \in last.got :
               pkt.to = n /\ pkt.body.type = "response"
               /\ pkt.body.id = calls[n][2].id

OutcomeKinds ==
    {"Pending", "Resolved", "RejectedByPeer", "RejectedByTimeout",
     "RejectedBySendFailure"}

\* C2: a call has one outcome, and once it is settled no later step (a late
\* or duplicate response, a timer firing after a response) changes it.
C2_SettledOnce ==
    [][\A n \in Nodes : \A c \in CallsOf(n) :
          /\ calls'[n][c].outcome.kind \in OutcomeKinds
          /\ calls[n][c].outcome.kind # "Pending"
                 => calls'[n][c].outcome = calls[n][c].outcome
      ]_vars

\* one call timed out and a response with its id was handled afterwards (its
\* tracker entry is gone); another was settled by a response and its timer
\* fired afterwards
C2_Witness ==
    /\ \E n \in Nodes : \E c \in CallsOf(n) :
           /\ calls[n][c].outcome.kind = "RejectedByTimeout"
           /\ calls[n][c].pc = "awaiting"
           /\ msgPromises[n][calls[n][c].id] = NoCall
    /\ \E n \in Nodes : \E c \in CallsOf(n) :
           /\ calls[n][c].outcome.kind \in {"Resolved", "RejectedByPeer"}
           /\ calls[n][c].timer = "fired"

\* the rejection the claims promise for a call that times out
TimeoutOutcome ==
    [result |-> Absent, error |-> {[message |-> "timeout", code |-> 0]},
     kind |-> "RejectedByTimeout"]

\* C3: with a timeout >= 0, every request whose send succeeded is eventually
\* rejected with {code: 0, message: "timeout"}, unless a response with its id
\* settled it (which takes such a response to be delivered).
C3_TimeoutEventuallyRejects ==
    \A n \in Nodes, c \in 1 .. MaxOps :
        (timeout >= 0 /\ c \in CallsOf(n) /\ calls[n][c].send = "ok")
            ~> (c \in CallsOf(n)
                /\ (\/ calls[n][c].outcome = TimeoutOutcome
                    \/ calls[n][c].outcome.kind \in {"Resolved", "RejectedByPeer"}))

\* a call was rejected by its timer with no response handled for its id (its
\* tracker entry is still there), under the smallest timeout >= 0
C3_Witness ==
    /\ timeout = 0
    /\ \E n \in Nodes : \E c \in CallsOf(n) :
           /\ calls[n][c].send = "ok"
           /\ calls[n][c].outcome = TimeoutOutcome
           /\ msgPromises[n][calls[n][c].id] = c

\* C4: a request whose send fails is rejected with code -32000 and the
\* transport error's text, and its id never has an entry in the tracker.
C4_SendFailure ==
    \A n \in Nodes : \A c \in CallsOf(n) :
        calls[n][c].send # "ok" =>
            /\ msgPromises[n][calls[n][c].id] = NoCall
            /\ calls[n][c].pc \in {"sending", "done"}
            /\ calls[n][c].pc = "sending" => calls[n][c].outcome.kind = "Pending"
            /\ calls[n][c].pc = "done" =>
                   calls[n][c].outcome =
                       [result |-> Absent,
                        error |-> {[message |-> calls[n][c].send,
                                    code |-> -32000]},
                        kind |-> "RejectedBySendFailure"]

C4_Witness ==
    \E n \in Nodes : \E c \in CallsOf(n) :
        /\ calls[n][c].outcome.kind = "RejectedBySendFailure"
        /\ Tracked(n) # {}

\* C5: a response whose id has no entry in the tracker changes nothing: the
\* tracker, the registry, the id counter and every call stay as they are, no
\* message is sent and nothing is raised.
C5_UnknownIdDiscarded ==
    [][\A pkt \in net :
          (RespStep(pkt) /\ (pkt.body.id \notin Ids
                             \/ msgPromises[pkt.to][pkt.body.id] = NoCall)) =>
              /\ UNCHANGED <<msgPromises, methods, nextId, calls, serving>>
              /\ last'.sends = <<>>
              /\ last'.invoked = {}
              /\ ~last'.raised
              /\ net' = net \ {pkt}
      ]_vars

\* a response with an id the node never issued has just been handled by a
\* node that has a call in its tracker
C5_Witness ==
    \E pkt \in last.got :
        /\ pkt.body.type = "response"
        /\ pkt.body.id >= nextId[pkt.to]
        /\ Tracked(pkt.to) # {}

\* C6: the ids of a node's request calls increase strictly in issue order,
\* failed and in-flight calls included, and every pending call has a tracker
\* entry of its own.
C6_MonotonicIds ==
    \A n \in Nodes :
        /\ \A c, d \in CallsOf(n) : c < d => calls[n][c].id < calls[n][d].id
        /\ \A c \in CallsOf(n) :
               (calls[n][c].pc = "awaiting" /\ calls[n][c].outcome.kind = "Pending")
                   => msgPromises[n][calls[n][c].id] = c

\* a node's first call failed to send and its second call is pending
C6_Witness ==
    \E n \in Nodes :
        /\ Len(calls[n]) = 2
        /\ calls[n][1].outcome.kind = "RejectedBySendFailure"
        /\ IsPending(n, 2)

\* this step sent nothing and raised nothing
Silent == last'.sends = <<>> /\ ~last'.raised /\ net' \subseteq net

\* C7: a notification (a request without id) never makes the node send a
\* message or raise an error, whether no handler is registered, the handler
\* succeeds or the handler throws.
C7_NotificationSilence ==
    [][/\ \A pkt \in last'.got :
              (pkt.body.type = "request" /\ pkt.body.id = NoId) => Silent
       /\ \A inv \in last'.inv : inv.id = NoId => Silent
      ]_vars

\* the handler of a notification has just thrown
C7_Witness ==
    \E inv \in last.inv, out \in last.out :
        inv.id = NoId /\ out.kind # "return"

\* body is an error response for id carrying the method-not-found code
IsNotFoundError(body, id) ==
    /\ body.type = "response"
    /\ body.id = id
    /\ Cardinality(body.error) = 1
    /\ \A e \in body.error : e.code = MethodNotFoundCode

\* this step sent exactly the packet whose body satisfies the claim, in
\* answer to a request of peer `to` handled by node `from`
SentOne(from, to) ==
    /\ Len(last'.sends) = 1
    /\ last'.sends[1].pkt.to = to
    /\ last'.sends[1].pkt.from = from
    /\ net' \ net = IF last'.sends[1].ok THEN {last'.sends[1].pkt} ELSE {}

\* C8: a request with an id for a method that is not registered invokes no
\* handler and is answered by exactly one message, an error response with
\* that id and the method-not-found code; that response rejects the
\* requester's pending call with that error.
C8_MethodNotFound ==
    [][/\ \A pkt \in net :
              (/\ last'.got = {pkt}
               /\ pkt.body.type = "request"
               /\ pkt.body.id # NoId
               /\ methods[pkt.to][pkt.body.name] = NoHandler) =>
                  /\ last'.invoked = {}
                  /\ serving' = serving
                  /\ SentOne(pkt.to, pkt.from)
                  /\ IsNotFoundError(last'.sends[1].pkt.body, pkt.body.id)
       /\ \A pkt \in net :
              (RespStep(pkt) /\ IsNotFoundError(pkt.body, pkt.body.id)) =>
                  \A c \in CallsOf(pkt.to) :
                      (IsPending(pkt.to, c) /\ calls[pkt.to][c].id = pkt.body.id) =>
                          calls'[pkt.to][c].outcome =
                              [result |-> Absent, error |-> pkt.body.error,
                               kind |-> "RejectedByPeer"]
      ]_vars

\* the peer's method-not-found response has just rejected a call
C8_Witness ==
    \E pkt \in last.got :
        /\ pkt.from \in Nodes
        /\ IsNotFoundError(pkt.body, pkt.body.id)
        /\ \E c \in CallsOf(pkt.to) :
               /\ calls[pkt.to][c].id = pkt.body.id
               /\ calls[pkt.to][c].peer = pkt.from
               /\ calls[pkt.to][c].outcome.kind = "RejectedByPeer"
               /\ calls[pkt.to][c].outcome.error = pkt.body.error

\* C9: when the handler of a request with an id succeeds, exactly one message
\* is sent to the requester, a response with the same id, no error and the
\* handler's result (absent if it produced none); that response fulfils the
\* requester's pending call with that result.
C9_HandlerSuccess ==
    [][/\ \A inv \in last'.inv, out \in last'.out :
              (inv.id # NoId /\ out.kind = "return") =>
                  /\ SentOne(inv.at, inv.from)
                  /\ last'.sends[1].pkt.body.type = "response"
                  /\ last'.sends[1].pkt.body.id = inv.id
                  /\ last'.sends[1].pkt.body.error = {}
                  /\ last'.sends[1].pkt.body.result =
                         IF out.value = "undefined" THEN Absent ELSE out.value
       /\ \A pkt \in net :
              (RespStep(pkt) /\ pkt.body.error = {}) =>
                  \A c \in CallsOf(pkt.to) :
                      (IsPending(pkt.to, c) /\ calls[pkt.to][c].id = pkt.body.id) =>
                          calls'[pkt.to][c].outcome =
                              [result |-> pkt.body.result, error |-> {},
                               kind |-> "Resolved"]
      ]_vars

\* one call was fulfilled with the handler's result, and the peer's response
\* without result has just fulfilled another
C9_Witness ==
    \E pkt \in last.got :
        /\ pkt.from \in Nodes
        /\ pkt.body.type = "response"
        /\ pkt.body.error = {}
        /\ \E c, d \in CallsOf(pkt.to) :
               /\ calls[pkt.to][c].id = pkt.body.id
               /\ calls[pkt.to][c].outcome = Resolved(Absent)
               /\ calls[pkt.to][d].outcome = Resolved("r1")

\* the error the claim promises for what the handler threw
ExpectedError(out) ==
    CASE out.kind = "RPCException" -> [message |-> out.value, code |-> out.code]
      [] out.kind = "Error"        -> [message |-> out.value, code |-> 0]
      [] out.kind = "value"        -> [message |-> "\"" \o out.value \o "\"", code |-> 0]
      [] out.kind = "circular"     -> [message |-> "unknown error", code |-> 0]

\* C10: when the handler of a request with an id throws, exactly one error
\* response with that id is sent, carrying the thrown RPC error's code and
\* message, or code 0 with the failure's message, or code 0 with the
\* stringified value, or code 0 with "unknown error" when the value cannot
\* be stringified; a success response is never sent.
C10_HandlerFailure ==
    \A inv \in last.inv, out \in last.out :
        (inv.id # NoId /\ out.kind # "return") =>
            /\ Len(last.sends) = 1
            /\ last.sends[1].pkt.to = inv.from
            /\ last.sends[1].pkt.body.type = "response"
            /\ last.sends[1].pkt.body.id = inv.id
            /\ last.sends[1].pkt.body.error = {ExpectedError(out)}

\* C11: serving an inbound request never ends in an error raised into the
\* local process: whatever the handler does and whether or not the reply can
\* be sent, the step that handles a request, and the step that resumes after
\* its handler, raise nothing.
C11_NoLocalRaise ==
    ((\E pkt \in last.got : pkt.body.type = "request") \/ last.inv # {})
        => ~last.raised

\* C12: with a negative timeout no watchdog exists: no call ever has a timer
\* or is rejected by timeout, and a call registered in the tracker stays
\* pending, with its entry, through every step that is not the handling of a
\* response bearing its id.
C12_NegativeTimeoutWaits ==
    [][timeout < 0 =>
          \A n \in Nodes : \A c \in CallsOf(n) :
              /\ calls'[n][c].timer = "none"
              /\ calls'[n][c].outcome.kind # "RejectedByTimeout"
              /\ (/\ IsPending(n, c)
                  /\ ~\E pkt \in net : /\ RespStep(pkt)
                                       /\ pkt.to = n
                                       /\ pkt.body.id = calls[n][c].id)
                     => /\ calls'[n][c].outcome.kind = "Pending"
                        /\ msgPromises'[n][calls[n][c].id] = c
      ]_vars

\* under a negative timeout a call is still pending after a response with
\* another id was handled by its node, and another call of that node was
\* settled by its own response
C12_Witness ==
    /\ timeout < 0
    /\ \E n \in Nodes : \E c, d \in CallsOf(n) :
           /\ IsPending(n, c)
           /\ calls[n][d].outcome.kind \in {"Resolved", "RejectedByPeer"}
           /\ \E pkt \in last.got :
                  /\ pkt.to = n
                  /\ pkt.body.type = "response"
                  /\ pkt.body.id # calls[n][c].id

\* C13: stop() settles no call and does not touch the tracker: over a step
\* that stops a node, every call (the pending ones included) and every
\* tracker entry are what they were before.
C13_StopFrame ==
    [][\A n \in Nodes : (n \in last'.stopped \/ (started[n] /\ ~started'[n])) =>
          /\ msgPromises' = msgPromises
          /\ calls' = calls
      ]_vars

\* a node has just been stopped while one of its calls is pending in the
\* tracker
C13_Witness ==
    \E n \in last.stopped :
        /\ ~started[n]
        /\ \E c \in CallsOf(n) : IsPending(n, c)

\* C14: addMethod(name, handler) replaces the handler of that name and of no
\* other: the registry changes only by addMethod, after addMethod the name
\* maps to the handler just given whatever it mapped to before, every other
\* entry is kept, and a request is dispatched to the handler its name maps to
\* at the lookup (to none if the name was never registered).
C14_LastRegistrationWins ==
    [][/\ \A r \in last'.reg :
              /\ methods'[r.at][r.name] = r.handler
              /\ \A n \in Nodes, m \in RegNames :
                     <<n, m>> # <<r.at, r.name>> => methods'[n][m] = methods[n][m]
       /\ last'.reg = {} => methods' = methods
       /\ \A pkt \in net :
              (last'.got = {pkt} /\ pkt.body.type = "request") =>
                  /\ last'.invoked = {methods[pkt.to][pkt.body.name]} \ {NoHandler}
                  /\ \A inv \in serving'[pkt.to] \ serving[pkt.to] :
                         /\ inv.name = pkt.body.name
                         /\ inv.handler = methods[pkt.to][pkt.body.name]
      ]_vars

\* a name has just been registered over another handler, which a request
\* dispatched before is still running, while the other name keeps its own
\* handler; a request for the name is waiting to be dispatched
C14_Witness ==
    \E r \in last.reg :
        /\ r.prior \notin {NoHandler, r.handler}
        /\ methods[r.at][r.name] = r.handler
        /\ \E inv \in serving[r.at] : inv.name = r.name /\ inv.handler = r.prior
        /\ \E m \in RegNames \ {r.name} : methods[r.at][m] = r.prior
        /\ \E pkt \in net : pkt.to = r.at /\ pkt.body.name = r.name

\* C15: the timeout watchdog removes the tracker entry of the call it
\* rejects: the tracker never holds an entry for a call that was settled by
\* timeout.
C15_TimeoutRemovesEntry ==
    \A n \in Nodes : \A c \in CallsOf(n) :
        calls[n][c].outcome.kind = "RejectedByTimeout"
            => msgPromises[n][calls[n][c].id] # c

\* C16: a response that settles a call cancels its timeout watchdog: a call
\* resolved or rejected by a response has no timer that is still armed or
\* that fired afterwards.
C16_ResponseCancelsTimer ==
    \A n \in Nodes : \A c \in CallsOf(n) :
        calls[n][c].outcome.kind \in {"Resolved", "RejectedByPeer"}
            => calls[n][c].timer \notin {"armed", "fired"}

\* C17: a response bearing the id of a request whose send succeeds is never
\* discarded, even when it is handled before the request has registered the
\* call: once the node has handled the response of the called peer the call
\* is settled.
C17_EarlyResponseSettles ==
    \A pkt \in last.got :
        pkt.body.type = "response" =>
            \A c \in CallsOf(pkt.to) :
                (/\ calls[pkt.to][c].id = pkt.body.id
                 /\ calls[pkt.to][c].send = "ok"
                 /\ calls[pkt.to][c].peer = pkt.from)
                    => calls[pkt.to][c].outcome.kind # "Pending"

\* C18: bytes that fail to decode are dropped: the step that receives them
\* dispatches nothing, invokes no handler, sends nothing, consumes only those
\* bytes and leaves the registry, the tracker, every call, the running
\* handlers and the started adapter as they were, so that the messages that
\* follow are dispatched as before.
C18_MalformedDropped ==
    [][\A pkt \in net :
          (last'.got = {pkt} /\ pkt.body.type \notin {"request", "response"}) =>
              /\ last'.invoked = {}
              /\ last'.inv = {}
              /\ last'.sends = <<>>
              /\ net' = net \ {pkt}
              /\ UNCHANGED <<methods, msgPromises, calls, serving, started,
                             nextId>>
      ]_vars

\* the serving node has dispatched a request to its handler after it
\* received undecodable bytes, and a call is pending at the caller
C18_Witness ==
    /\ used = 1
    /\ \A pkt \in net : pkt.body.type # "malformed"
    /\ \E pkt \in last.got :
           /\ pkt.to \in Registrars
           /\ pkt.body.type = "request"
           /\ last.invoked # {}
    /\ \E c \in CallsOf(Client) : IsPending(Client, c)

\* C19: inbound dispatch does not wait for a running handler.  While a
\* handler of a node is suspended, every message delivered to the node can be
\* handled at once; a response handled meanwhile settles its pending call, a
\* request handled meanwhile is dispatched to its handler (or answered, if it
\* has none), and a handler that returns meanwhile is answered, all without
\* the first handler returning.
C19_NoSerialization ==
    /\ [](\A n \in Nodes : (started[n] /\ serving[n] # {}) =>
             \A pkt \in net : pkt.to = n =>
                 /\ pkt.body.type = "response" => ENABLED HandleResponse(pkt)
                 /\ pkt.body.type = "request" => ENABLED HandleRequest(pkt, TRUE))
    /\ [][/\ \A pkt \in net :
                 (last'.got = {pkt} /\ serving[pkt.to] # {}) =>
                     /\ serving[pkt.to] \subseteq serving'[pkt.to]
                     /\ pkt.body.type = "response" =>
                            \A c \in CallsOf(pkt.to) :
                                (/\ IsPending(pkt.to, c)
                                 /\ calls[pkt.to][c].id = pkt.body.id)
                                    => calls'[pkt.to][c].outcome =
                                           ResponseOutcome(pkt.body)
                     /\ pkt.body.type = "request" =>
                            \/ last'.invoked # {}
                            \/ Len(last'.sends) = 1
          /\ \A inv \in last'.inv :
                 (inv.id # NoId /\ serving'[inv.at] # {}) =>
                     /\ Len(last'.sends) = 1
                     /\ last'.sends[1].pkt.body.id = inv.id
         ]_vars

\* the first handler of node 2 is still suspended; meanwhile a response has
\* settled the call node 2 made, and the request of node 1 has just been
\* answered by its own handler
C19_Witness ==
    /\ Suspended \in serving[Suspended.at]
    /\ \E c \in CallsOf(Suspended.at) :
           calls[Suspended.at][c].outcome.kind \in {"Resolved", "RejectedByPeer"}
    /\ \E inv \in last.inv :
           /\ inv.at = Suspended.at
           /\ inv.id # NoId
           /\ Len(last.sends) = 1
           /\ last.sends[1].pkt.body.id = inv.id

====
